---- MODULE Spec2Model ----
(***************************************************************************)
(* A model of sneakpeek's orchestration core: the task queue and its      *)
(* storage (sneakpeek/queue), the consumer with its heartbeat loop        *)
(* (sneakpeek/queue/consumer.py), the lease storages and the scheduler    *)
(* (sneakpeek/scheduler).                                                  *)
(*                                                                         *)
(* Every await on the networked storage is a step of its own, so that the *)
(* calls of different coroutines and replicas interleave as they do       *)
(* against a shared Redis.  Task records are held by value: a coroutine's *)
(* local Task is a copy of what it last read or wrote.                     *)
(***************************************************************************)
EXTENDS Integers, FiniteSets, Sequences, TLC

----------------------------------------------------------------------------
(* Bounds of the model *)

NumNames == 2
MaxTasks == 2
NumProducers == 2
NumConsumers == 2
MaxConcurrency == 1
NumReplicas == 2
NumPeriodic == 1
NumDescriptors == 2
MaxTime == 2

Names == 1..NumNames
Producers == 1..NumProducers
Consumers == 1..NumConsumers
TaskIds == 1..MaxTasks
Replicas == 1..NumReplicas
PeriodicIds == 1..NumPeriodic
Descriptors == 1..NumDescriptors

----------------------------------------------------------------------------
(* Data model: sneakpeek/queue/model.py *)

PENDING == "pending"
STARTED == "started"
FAILED == "failed"
SUCCEEDED == "succeeded"
DEAD == "dead"
KILLED == "killed"

TaskStatus == {PENDING, STARTED, FAILED, SUCCEEDED, DEAD, KILLED}

Terminal == {SUCCEEDED, FAILED, DEAD, KILLED}

UTMOST == 0
HIGH == 1
NORMAL == 2

TaskPriority == {UTMOST, HIGH, NORMAL}

\* Optional datetime / timedelta fields hold None until they are set.
None == -1
\* Optional result string
NoResult == "none"

\* The one handler the consumers are constructed with, and a name that is
\* not registered.
TEST_HANDLER_NAME == "test_handler"
UNKNOWN_HANDLER_NAME == "unknown_handler"

Task(id, request, now_) ==
    [id |-> id,
     task_name |-> request.task_name,
     task_handler |-> request.task_handler,
     status |-> PENDING,
     priority |-> request.priority,
     created_at |-> now_,
     started_at |-> None,
     last_active_at |-> None,
     finished_at |-> None,
     result |-> NoResult,
     timeout |-> request.timeout]

EnqueueTaskRequest(name, handler, priority, timeout) ==
    [task_name |-> name, task_handler |-> handler, priority |-> priority,
     timeout |-> timeout]

NoTask == [id |-> 0]

----------------------------------------------------------------------------
(* State *)

VARIABLES
    now,             \* wall clock (datetime.utcnow())
    task_instances,  \* task::<id> -> Task            (_task_instances)
    tasks,           \* task_name::<name> -> set of ids (_tasks)
    queue,           \* internal::queue: set of <<score, id>>
    id_counter,      \* internal::id_counter
    backend,         \* which QueueStorageABC implementation is deployed
    ppc,             \* caller of enqueue: position in the call
    ptask,           \* caller of enqueue: the Task it is enqueueing
    ex,              \* supervised executions (process_task), by task id
    dequeued,        \* ids returned by dequeue_task, in order
    cycle,           \* consumer poll loop alive (Consumer._cycle)
    lease_backend,   \* which LeaseStorageABC implementation is deployed
    _leases,         \* InMemoryLeaseStorage._leases: name -> Lease
    redis_leases,    \* Redis keys lease:<name>: owner and expiry
    lease,           \* Scheduler.lease of every replica
    lpc,             \* replica: position in _on_tick
    lget,            \* replica: what GET lease:<name> returned
    stasks,          \* Scheduler.tasks of every replica, in insertion order
    jobs,            \* the replica's APScheduler jobs: <<task id, priority>>
    periodic,        \* the periodic-task source: id -> PeriodicTask
    lcall,           \* a client's call of the lease storage in progress, by owner
    ret              \* the call of the queue's interface in progress, if any

schedVars == <<lease_backend, _leases, redis_leases, lease, lpc, lget, stasks,
               jobs, periodic, lcall>>

vars == <<now, task_instances, tasks, queue, id_counter, backend, ppc, ptask,
          ex, dequeued, cycle, schedVars, ret>>

storageVars == <<task_instances, tasks, queue, id_counter>>
producerVars == <<ppc, ptask>>
consumerVars == <<ex, cycle>>

----------------------------------------------------------------------------
(* Queue storage: sneakpeek/queue/redis_storage.py and in_memory_storage.py *)

\* The source shifts by 32 bits; the model's integers are 32 bits wide, so
\* the shift is scaled down.  Ids stay below 2^SCORE_PRIORITY_BIT_OFFSET here
\* as they stay below 2^32 there.
SCORE_PRIORITY_BIT_OFFSET == 4

\* A score that leaves the priority out
ScoreWithoutPriority(task) == task.id

_get_task_score(task) ==
    task.priority * (2 ^ SCORE_PRIORITY_BIT_OFFSET) + task.id

\* Decimal digits of a task id, as in the key "task::<id>"
RECURSIVE Digits(_)
Digits(n) == IF n < 10 THEN <<n>> ELSE Digits(n \div 10) \o <<n % 10>>

\* Byte-wise order of two task keys (Redis orders equal scores by member)
RECURSIVE SeqLess(_, _)
SeqLess(a, b) ==
    IF a = <<>> THEN b # <<>>
    ELSE IF b = <<>> THEN FALSE
    ELSE IF Head(a) # Head(b) THEN Head(a) < Head(b)
    ELSE SeqLess(Tail(a), Tail(b))

_get_task_key(task_id) == Digits(task_id)

\* Order of the entries of the pending ordering.  asyncio.PriorityQueue
\* compares the tuples (score, id); ZPOPMIN takes the lowest score and, among
\* equal scores, the lowest member.
EntryLessOn(b, e, f) ==
    \/ e[1] < f[1]
    \/ /\ e[1] = f[1]
       /\ IF b = "memory" THEN e[2] < f[2]
          ELSE SeqLess(_get_task_key(e[2]), _get_task_key(f[2]))

EntryLess(e, f) == EntryLessOn(backend, e, f)

\* The entry the backend b would hand out next
FirstEntry(b) ==
    CHOOSE e \in queue : \A f \in queue : e = f \/ EntryLessOn(b, e, f)

zpopmin == FirstEntry(backend)

RECURSIVE SortedDesc(_)
SortedDesc(S) ==
    IF S = {} THEN <<>>
    ELSE LET m == CHOOSE x \in S : \A y \in S : y <= x
         IN  <<m>> \o SortedDesc(S \ {m})

RECURSIVE SortedAsc(_)
SortedAsc(S) ==
    IF S = {} THEN <<>>
    ELSE LET m == CHOOSE x \in S : \A y \in S : x <= y
         IN  <<m>> \o SortedAsc(S \ {m})

get_task_instances(task_name) ==
    LET ids == SortedDesc(tasks[task_name])
    IN  [i \in 1..Len(ids) |-> task_instances[ids[i]]]

get_queue_len == Cardinality(queue)

\* Redis: SET task::<id> ... XX writes only over an existing key and reports
\* nothing else; in memory: TaskNotFoundError unless the id is in the map.
update_task_stored(task) ==
    IF task.id \in DOMAIN task_instances
    THEN [task_instances EXCEPT ![task.id] = task]
    ELSE task_instances

\* An id taken from the number of records stored
CountRecordsId == Cardinality(DOMAIN task_instances) + 1

\* _generate_id: INCR internal::id_counter / next(count(1))
_generate_id == id_counter + 1

\* RedisQueueStorage.enqueue_task, first await: the id
GenerateId(p) ==
    /\ backend = "redis"
    /\ ppc[p] = "enqueue_task"
    /\ id_counter' = _generate_id
    /\ ptask' = [ptask EXCEPT ![p].id = _generate_id]
    /\ ppc' = [ppc EXCEPT ![p] = "pipeline"]
    /\ UNCHANGED <<now, schedVars, task_instances, tasks, queue, backend, ret, ex, dequeued, cycle>>

\* An enqueue that stores the record and the name index and leaves the
\* pending ordering as it was
StoreRecordOnly(task) ==
    /\ task_instances' = (task.id :> task) @@ task_instances
    /\ tasks' = [tasks EXCEPT ![task.task_name] = @ \cup {task.id}]
    /\ queue' = queue

\* The record, the name index and the pending ordering written together
StoreTask(task) ==
    /\ task_instances' = (task.id :> task) @@ task_instances
    /\ tasks' = [tasks EXCEPT ![task.task_name] = @ \cup {task.id}]
    /\ queue' = queue \cup {<<_get_task_score(task), task.id>>}

\* RedisQueueStorage.enqueue_task after the id: the MULTI/EXEC pipeline
EnqueuePipeline(p) ==
    /\ backend = "redis"
    /\ ppc[p] = "pipeline"
    /\ StoreTask(ptask[p])
    /\ ppc' = [ppc EXCEPT ![p] = "idle"]
    /\ ptask' = [ptask EXCEPT ![p] = NoTask]
    /\ UNCHANGED <<now, schedVars, id_counter, backend, ret, ex, dequeued, cycle>>

\* InMemoryQueueStorage.enqueue_task: no suspension between the id and the put
MemEnqueueTask(p) ==
    /\ backend = "memory"
    /\ ppc[p] = "enqueue_task"
    /\ id_counter' = _generate_id
    /\ StoreTask([ptask[p] EXCEPT !.id = _generate_id])
    /\ ppc' = [ppc EXCEPT ![p] = "idle"]
    /\ ptask' = [ptask EXCEPT ![p] = NoTask]
    /\ UNCHANGED <<now, schedVars, backend, ret, ex, dequeued, cycle>>

\* A dequeue that reads the minimum entry and leaves it in place
DequeuePeek ==
    /\ queue # {}
    /\ queue' = queue
    /\ dequeued' = Append(dequeued, zpopmin[2])

\* dequeue_task: the minimum entry leaves the pending ordering in one step
\* (ZPOPMIN / get_nowait); then its record is read.
DequeuePop ==
    /\ queue # {}
    /\ queue' = queue \ {zpopmin}
    /\ dequeued' = Append(dequeued, zpopmin[2])

\* A caller of the storage interface enqueues a task (QueueStorageABC.enqueue_task)
CallEnqueueTask(p, request) ==
    /\ ppc[p] = "idle"
    /\ id_counter + Cardinality({q \in Producers : ppc[q] = "enqueue_task"}) < MaxTasks
    /\ ppc' = [ppc EXCEPT ![p] = "enqueue_task"]
    /\ ptask' = [ptask EXCEPT ![p] = Task(0, request, now)]
    /\ UNCHANGED <<now, schedVars, storageVars, backend, ret, ex, dequeued, cycle>>

\* A caller of the storage interface dequeues (QueueStorageABC.dequeue_task)
CallDequeueTask ==
    /\ DequeuePop
    /\ UNCHANGED <<now, schedVars, task_instances, tasks, id_counter, backend, ret, producerVars, ex, cycle>>

----------------------------------------------------------------------------
(* Queue: sneakpeek/queue/queue.py *)

\* A guard that looks for STARTED instances only
HasStartedRun(existing_tasks) ==
    \E i \in DOMAIN existing_tasks : existing_tasks[i].status = STARTED

HasActiveRun(existing_tasks) ==
    \E i \in DOMAIN existing_tasks :
        existing_tasks[i].status \in {STARTED, PENDING}

\* Queue.enqueue up to its first storage write: read the instances of the
\* name, raise TaskHasActiveRunError or build the Task.
EnqueueRead(p, request) ==
    /\ ppc[p] = "idle"
    /\ id_counter + Cardinality({q \in Producers : ppc[q] = "enqueue_task"}) < MaxTasks
    /\ LET existing_tasks == get_task_instances(request.task_name)
       IN  IF HasActiveRun(existing_tasks)
           THEN /\ ppc' = [ppc EXCEPT ![p] = "TaskHasActiveRunError"]
                /\ ptask' = [ptask EXCEPT ![p] = Task(0, request, now)]
           ELSE /\ ppc' = [ppc EXCEPT ![p] = "enqueue_task"]
                /\ ptask' = [ptask EXCEPT ![p] = Task(0, request, now)]
    /\ UNCHANGED <<now, schedVars, storageVars, backend, ret, ex, dequeued, cycle>>

\* The storage fails a round trip of enqueue_task (a connection error, say)
\* before the task is written: Queue.enqueue raises
EnqueueStorageError(p) ==
    /\ ppc[p] \in {"enqueue_task", "pipeline"}
    /\ ppc' = [ppc EXCEPT ![p] = "Exception"]
    /\ UNCHANGED <<now, schedVars, storageVars, backend, ret, ptask, ex, dequeued,
                   cycle>>

\* A handler of the error that also unregisters the caller's triggers
EnqueueRaisedUnschedules(p) ==
    /\ ppc[p] \in {"TaskHasActiveRunError", "Exception"}
    /\ ppc' = [ppc EXCEPT ![p] = "idle"]
    /\ ptask' = [ptask EXCEPT ![p] = NoTask]
    /\ jobs' = [r \in DOMAIN jobs |-> IF r = p THEN {} ELSE jobs[r]]
    /\ UNCHANGED <<now, lease_backend, _leases, redis_leases, lease, lpc, lget,
                   stasks, periodic, lcall, storageVars, backend, ret, ex,
                   dequeued, cycle>>

\* The caller has seen TaskHasActiveRunError or another error of
\* Queue.enqueue; Scheduler.enqueue_task logs it and returns
EnqueueRaised(p) ==
    /\ ppc[p] \in {"TaskHasActiveRunError", "Exception"}
    /\ ppc' = [ppc EXCEPT ![p] = "idle"]
    /\ ptask' = [ptask EXCEPT ![p] = NoTask]
    /\ UNCHANGED <<now, schedVars, storageVars, backend, ret, ex, dequeued, cycle>>


\* get_tasks: InMemoryQueueStorage sorts by id ascending, RedisQueueStorage
\* descending
GetTasksOn(b) ==
    IF b = "memory" THEN SortedAsc(DOMAIN task_instances)
    ELSE SortedDesc(DOMAIN task_instances)

get_tasks == GetTasksOn(backend)

\* Queue._is_task_dead.  Its first line reads Task.STARTED, an attribute the
\* Task model does not have, so every call raises AttributeError.
_is_task_dead(task) == "AttributeError"

\* The loop of Queue.kill_dead_tasks over get_tasks(), from position i on
RECURSIVE KillLoop(_, _, _)
KillLoop(ids, i, store) ==
    IF i > Len(ids) THEN store
    ELSE LET task == store[ids[i]]
             dead == _is_task_dead(task)
         IN  IF dead = "AttributeError" THEN store
             ELSE IF dead = "True"
             THEN KillLoop(ids, i + 1,
                      [store EXCEPT ![ids[i]].status = DEAD,
                                    ![ids[i]].finished_at = now])
             ELSE KillLoop(ids, i + 1, store)

\* Queue.kill_dead_tasks
KillDeadTasks ==
    /\ task_instances' = KillLoop(get_tasks, 1, task_instances)
    /\ UNCHANGED <<now, schedVars, tasks, queue, id_counter, backend, ret, producerVars, ex,
                   dequeued, cycle>>

\* An operator marks a running task KILLED through Queue.update_task
AdminKill(id) ==
    /\ id \in DOMAIN task_instances
    /\ task_instances[id].status = STARTED
    /\ task_instances' = update_task_stored(
           [task_instances[id] EXCEPT !.status = KILLED, !.finished_at = now])
    /\ UNCHANGED <<now, schedVars, tasks, queue, id_counter, backend, ret, producerVars, ex,
                   dequeued, cycle>>

\* An operator marks a task that is still waiting KILLED through
\* Queue.update_task: the record is written, the pending ordering is not
\* touched
AdminKillPending(id) ==
    /\ id \in DOMAIN task_instances
    /\ task_instances[id].status = PENDING
    /\ task_instances' = update_task_stored(
           [task_instances[id] EXCEPT !.status = KILLED, !.started_at = now,
                                      !.finished_at = now])
    /\ UNCHANGED <<now, schedVars, tasks, queue, id_counter, backend, ret, producerVars, ex,
                   dequeued, cycle>>

----------------------------------------------------------------------------
(* The queue's interface called directly by a client *)

\* The client
Client == 1

\* A call in progress or just finished: the operation, the id it was given,
\* the error it raised (if any), the record it loaded and the task it
\* returns or is about to write.
RetVal(op, id, raised, loaded, task, pc) ==
    [op |-> op, id |-> id, raised |-> raised, loaded |-> loaded,
     task |-> task, pc |-> pc]

Idle == RetVal("idle", 0, "", NoTask, NoTask, "done")

\* A ping_task that takes a PENDING task for a running one
ping_task_read_pending(id) ==
    IF id \notin DOMAIN task_instances
    THEN [raised |-> "TaskNotFoundError", task |-> NoTask]
    ELSE IF task_instances[id].status \notin {STARTED, PENDING}
    THEN [raised |-> "TaskPingFinishedError", task |-> task_instances[id]]
    ELSE [raised |-> "",
          task |-> [task_instances[id] EXCEPT !.last_active_at = now]]

\* Queue.ping_task up to its write: get_task_instance, the status checks,
\* and the task with its new last_active_at
ping_task_read(id) ==
    IF id \notin DOMAIN task_instances
    THEN [raised |-> "TaskNotFoundError", task |-> NoTask]
    ELSE IF task_instances[id].status = PENDING
    THEN [raised |-> "TaskPingNotStartedError", task |-> task_instances[id]]
    ELSE IF task_instances[id].status # STARTED
    THEN [raised |-> "TaskPingFinishedError", task |-> task_instances[id]]
    ELSE [raised |-> "",
          task |-> [task_instances[id] EXCEPT !.last_active_at = now]]

\* Queue.ping_task(id) called by a client, up to its write
QPingRead(id) ==
    /\ ret = Idle
    /\ LET r == ping_task_read(id)
           loaded == IF id \in DOMAIN task_instances
                     THEN task_instances[id] ELSE NoTask
       IN  ret' = RetVal("ping_task", id, r.raised, loaded, r.task,
                         IF r.raised = "" THEN "write" ELSE "done")
    /\ UNCHANGED <<now, schedVars, storageVars, backend, producerVars, ex,
                   dequeued, cycle>>

\* ... and its storage.update_task
QPingWrite ==
    /\ ret.op = "ping_task"
    /\ ret.pc = "write"
    /\ task_instances' = update_task_stored(ret.task)
    /\ ret' = [ret EXCEPT !.pc = "done"]
    /\ UNCHANGED <<now, schedVars, tasks, queue, id_counter, backend,
                   producerVars, ex, dequeued, cycle>>

\* What update_task raises: the in-memory storage checks the id, SET ... XX
\* on Redis reports nothing
UpdateTaskRaisedOn(b, task) ==
    IF b = "memory" /\ task.id \notin DOMAIN task_instances
    THEN "TaskNotFoundError"
    ELSE ""

update_task_raised(task) == UpdateTaskRaisedOn(backend, task)

\* The task a client hands to update_task: the stored record, or a fresh
\* Task when there is none, moved to status s
UpdatedTask(id, s) ==
    LET base == IF id \in DOMAIN task_instances
                THEN task_instances[id]
                ELSE Task(id, EnqueueTaskRequest(1, TEST_HANDLER_NAME, NORMAL,
                                                 None), now)
    IN  [base EXCEPT !.status = s,
                     !.started_at = IF s = STARTED THEN now ELSE @,
                     !.finished_at = IF s \in Terminal THEN now ELSE @]

\* Queue.update_task(task) called by a client
QUpdate(id, s) ==
    /\ ret = Idle
    /\ LET task == UpdatedTask(id, s)
           loaded == IF id \in DOMAIN task_instances
                     THEN task_instances[id] ELSE NoTask
       IN  /\ task_instances' = update_task_stored(task)
           /\ ret' = RetVal("update_task", id, update_task_raised(task),
                            loaded, task, "done")
    /\ UNCHANGED <<now, schedVars, tasks, queue, id_counter, backend,
                   producerVars, ex, dequeued, cycle>>

\* Scaled from DEFAULT_DEAD_TIMEOUT (five minutes) to clock ticks
DEFAULT_DEAD_TIMEOUT == 1

\* Queue.kill_dead_tasks called by a client (or by KillDeadTasksHandler)
QKillDeadTasks ==
    /\ ret = Idle
    /\ task_instances' = KillLoop(get_tasks, 1, task_instances)
    /\ ret' = RetVal("kill_dead_tasks", 0,
                     IF get_tasks # <<>> THEN _is_task_dead(task_instances[get_tasks[1]])
                     ELSE "",
                     NoTask, NoTask, "done")
    /\ UNCHANGED <<now, schedVars, tasks, queue, id_counter, backend,
                   producerVars, ex, dequeued, cycle>>

\* The keep_last lowest ids
KeepOldest(task_ids, keep_last) ==
    {i \in task_ids : Cardinality({j \in task_ids : j < i}) < keep_last}

\* sorted(task_ids, reverse=True)[:keep_last]
KeepLast(task_ids, keep_last) ==
    {i \in task_ids : Cardinality({j \in task_ids : j > i}) < keep_last}

\* delete_old_tasks(keep_last): every name's ids beyond the keep_last highest
\* leave the record map and the name's index; the pending ordering is not
\* touched.
QDeleteOldTasks(keep_last) ==
    /\ ret = Idle
    /\ LET deleted == UNION {tasks[n] \ KeepLast(tasks[n], keep_last) : n \in Names}
       IN  /\ task_instances' = [i \in DOMAIN task_instances \ deleted |->
                                    task_instances[i]]
           /\ tasks' = [n \in Names |-> KeepLast(tasks[n], keep_last)]
    /\ ret' = RetVal("delete_old_tasks", keep_last, "", NoTask, NoTask, "done")
    /\ UNCHANGED <<now, schedVars, queue, id_counter, backend, producerVars,
                   ex, dequeued, cycle>>

\* The client has its answer
QReturn ==
    /\ ret # Idle
    /\ ret.pc = "done"
    /\ ret' = Idle
    /\ UNCHANGED <<now, schedVars, storageVars, backend, producerVars, ex,
                   dequeued, cycle>>

----------------------------------------------------------------------------
(* Consumer: sneakpeek/queue/consumer.py *)

handlers == {TEST_HANDLER_NAME}

HANDLER_RESULT == "handler_result"
FORMAT_EXC == "traceback"

active(c) == {id \in DOMAIN ex : ex[id].consumer = c}

\* A failure branch that forgets the error text
FailedTaskNoResult(task) ==
    [task EXCEPT !.finished_at = now, !.status = FAILED]

\* process_task's except Exception branch
FailedTask(task) ==
    [task EXCEPT !.finished_at = now, !.status = FAILED, !.result = FORMAT_EXC]

\* A success branch that forgets finished_at
SucceededTaskNoFinish(task) ==
    [task EXCEPT !.status = SUCCEEDED, !.result = HANDLER_RESULT]

\* process_task after the heartbeat loop
SucceededTask(task) ==
    [task EXCEPT !.finished_at = now, !.status = SUCCEEDED,
                 !.result = HANDLER_RESULT]

\* handler_task.cancel() if the handler task exists and is not done
Cancel(handler) ==
    IF handler \in {"created", "running"} THEN "cancelled" ELSE handler

\* A test of the active set that lets one execution too many in
SaturatedAbove(c) == Cardinality(active(c)) > MaxConcurrency

\* Consumer.consume, its first test: len(self.active) >= self.max_concurrency
Saturated(c) == Cardinality(active(c)) >= MaxConcurrency

\* Consumer.consume when it dequeues: Queue.dequeue is the storage's
\* dequeue_task; the task is handed to a new process_task in the active set.
Consume(c) ==
    /\ cycle[c]
    /\ ~Saturated(c)
    /\ queue # {}
    /\ queue' = queue \ {zpopmin}
    /\ LET id == zpopmin[2]
       IN  IF id \in DOMAIN task_instances
           THEN /\ ex' = (id :> [consumer |-> c, pc |-> "start",
                                 task |-> task_instances[id],
                                 handler |-> "none",
                                 done_at |-> None,
                                 ping |-> NoTask]) @@ ex
                /\ cycle' = cycle
           ELSE \* TaskNotFoundError leaves consume and ends _cycle
                /\ ex' = ex
                /\ cycle' = [cycle EXCEPT ![c] = FALSE]
    /\ UNCHANGED <<now, schedVars, task_instances, tasks, id_counter, backend, ret, producerVars,
                   dequeued>>

\* Consumer.consume returning False: saturated, or nothing pending
ConsumeNothing(c) ==
    /\ cycle[c]
    /\ \/ Saturated(c)
       \/ queue = {}
    /\ UNCHANGED vars

\* Consumer.stop() while _cycle is inside Queue.dequeue on Redis: ZPOPMIN has
\* taken the entry, and cycle_task.cancel() ends the coroutine at the await of
\* GET task::<id>, before the task reaches process_task
StopDuringDequeue(c) ==
    /\ backend = "redis"
    /\ cycle[c]
    /\ ~Saturated(c)
    /\ queue # {}
    /\ queue' = queue \ {zpopmin}
    /\ cycle' = [cycle EXCEPT ![c] = FALSE]
    /\ UNCHANGED <<now, schedVars, task_instances, tasks, id_counter, backend, ret, producerVars,
                   ex, dequeued>>

\* Consumer.stop() while _cycle sleeps: running = False, cycle_task.cancel();
\* the executions in the active set go on
Stop(c) ==
    /\ cycle[c]
    /\ cycle' = [cycle EXCEPT ![c] = FALSE]
    /\ UNCHANGED <<now, schedVars, storageVars, backend, ret, producerVars, ex,
                   dequeued>>

\* The consumer's process dies: its poll loop and its executions are gone,
\* the store keeps what was written
Crash(c) ==
    /\ cycle[c] \/ active(c) # {}
    /\ cycle' = [cycle EXCEPT ![c] = FALSE]
    /\ ex' = [i \in DOMAIN ex \ active(c) |-> ex[i]]
    /\ UNCHANGED <<now, schedVars, storageVars, backend, ret, producerVars,
                   dequeued>>

\* process_task up to the heartbeat loop: persist STARTED, look the handler up
ProcessStart(id) ==
    /\ id \in DOMAIN ex
    /\ ex[id].pc = "start"
    /\ LET task == [ex[id].task EXCEPT !.started_at = now, !.status = STARTED]
       IN  /\ task_instances' = update_task_stored(task)
           /\ IF task.task_handler \notin handlers
              THEN ex' = [ex EXCEPT ![id].task = FailedTask(task),
                                    ![id].pc = "closing"]
              ELSE ex' = [ex EXCEPT ![id].task = task,
                                    ![id].pc = "loop",
                                    ![id].handler = "created"]
    /\ UNCHANGED <<now, schedVars, tasks, queue, id_counter, backend, ret, producerVars,
                   dequeued, cycle>>

\* The loop condition finds the handler task done
HandlerDone(id) ==
    /\ id \in DOMAIN ex
    /\ ex[id].pc = "loop"
    /\ ex[id].handler \in {"returned", "raised"}
    /\ ex' = [ex EXCEPT ![id].task = IF ex[id].handler = "returned"
                                     THEN SucceededTask(@)
                                     ELSE FailedTask(@),
                        ![id].pc = "closing"]
    /\ UNCHANGED <<now, schedVars, storageVars, backend, ret, producerVars, dequeued, cycle>>

TimeoutExceeded(task) ==
    /\ task.timeout # None
    /\ now - task.started_at > task.timeout

\* The loop raises TaskTimedOut
TimedOut(id) ==
    /\ id \in DOMAIN ex
    /\ ex[id].pc = "loop"
    /\ ex[id].handler \in {"created", "running"}
    /\ TimeoutExceeded(ex[id].task)
    /\ ex' = [ex EXCEPT ![id].task = FailedTask(@),
                        ![id].handler = Cancel(@),
                        ![id].pc = "closing"]
    /\ UNCHANGED <<now, schedVars, storageVars, backend, ret, producerVars, dequeued, cycle>>

\* A heartbeat loop that pings once more although the handler task is done
PingReadLate(id) ==
    /\ id \in DOMAIN ex
    /\ ex[id].pc = "loop"
    /\ ex[id].handler \in {"created", "running", "returned", "raised"}
    /\ ~TimeoutExceeded(ex[id].task)
    /\ LET r == ping_task_read(id)
       IN  IF r.raised \in {"TaskNotFoundError", "TaskPingNotStartedError"}
           THEN \* except Exception
                ex' = [ex EXCEPT ![id].task = FailedTask(@),
                                 ![id].handler = Cancel(@),
                                 ![id].pc = "closing"]
           ELSE IF r.raised = "TaskPingFinishedError"
           THEN ex' = [ex EXCEPT ![id].handler = Cancel(@),
                                 ![id].pc = "closing"]
           ELSE ex' = [ex EXCEPT ![id].ping = r.task,
                                 ![id].handler = IF @ = "created" THEN "running" ELSE @,
                                 ![id].pc = "ping"]
    /\ UNCHANGED <<now, schedVars, storageVars, backend, ret, producerVars, dequeued, cycle>>

\* Queue.ping_task up to its write: load the record and check its status.
\* The handler task gets to run once process_task is suspended.
PingRead(id) ==
    /\ id \in DOMAIN ex
    /\ ex[id].pc = "loop"
    /\ ex[id].handler \in {"created", "running"}
    /\ ~TimeoutExceeded(ex[id].task)
    /\ LET r == ping_task_read(id)
       IN  IF r.raised \in {"TaskNotFoundError", "TaskPingNotStartedError"}
           THEN \* except Exception
                ex' = [ex EXCEPT ![id].task = FailedTask(@),
                                 ![id].handler = Cancel(@),
                                 ![id].pc = "closing"]
           ELSE IF r.raised = "TaskPingFinishedError"
           THEN ex' = [ex EXCEPT ![id].handler = Cancel(@),
                                 ![id].pc = "closing"]
           ELSE ex' = [ex EXCEPT ![id].ping = r.task,
                                 ![id].handler = "running",
                                 ![id].pc = "ping"]
    /\ UNCHANGED <<now, schedVars, storageVars, backend, ret, producerVars, dequeued, cycle>>

\* Queue.ping_task fails with an error of the storage client (the connection
\* to the store is lost while get_task_instance is awaited): process_task's
\* except Exception branch
PingStorageError(id) ==
    /\ id \in DOMAIN ex
    /\ ex[id].pc = "loop"
    /\ ex[id].handler \in {"created", "running"}
    /\ ~TimeoutExceeded(ex[id].task)
    /\ ex' = [ex EXCEPT ![id].task = FailedTask(@),
                        ![id].handler = Cancel(@),
                        ![id].pc = "closing"]
    /\ UNCHANGED <<now, schedVars, storageVars, backend, ret, producerVars, dequeued, cycle>>

\* Queue.ping_task's update_task, then asyncio.sleep(ping_delay)
PingWrite(id) ==
    /\ id \in DOMAIN ex
    /\ ex[id].pc = "ping"
    /\ task_instances' = update_task_stored(ex[id].ping)
    /\ ex' = [ex EXCEPT ![id].task = ex[id].ping,
                        ![id].ping = NoTask,
                        ![id].pc = "loop"]
    /\ UNCHANGED <<now, schedVars, tasks, queue, id_counter, backend, ret, producerVars,
                   dequeued, cycle>>

\* handler.process returns
HandlerReturn(id) ==
    /\ id \in DOMAIN ex
    /\ ex[id].handler = "running"
    /\ ex' = [ex EXCEPT ![id].handler = "returned", ![id].done_at = now]
    /\ UNCHANGED <<now, schedVars, storageVars, backend, ret, producerVars, dequeued, cycle>>

\* handler.process raises
HandlerRaise(id) ==
    /\ id \in DOMAIN ex
    /\ ex[id].handler = "running"
    /\ ex' = [ex EXCEPT ![id].handler = "raised", ![id].done_at = now]
    /\ UNCHANGED <<now, schedVars, storageVars, backend, ret, producerVars, dequeued, cycle>>

\* What process_task's finally block hands to Queue.update_task
ClosingTask(e) == e.task

\* A finally block that persists the task and leaves the execution in the
\* active set
CloseStaysActive(id) ==
    /\ id \in DOMAIN ex
    /\ ex[id].pc = "closing"
    /\ task_instances' = update_task_stored(ClosingTask(ex[id]))
    /\ ex' = [ex EXCEPT ![id].pc = "closed"]
    /\ UNCHANGED <<now, schedVars, tasks, queue, id_counter, backend, ret, producerVars,
                   dequeued, cycle>>

\* process_task's finally: update_task, then the done callback discards the
\* execution from the active set
Close(id) ==
    /\ id \in DOMAIN ex
    /\ ex[id].pc = "closing"
    /\ task_instances' = update_task_stored(ClosingTask(ex[id]))
    /\ ex' = [i \in DOMAIN ex \ {id} |-> ex[i]]
    /\ UNCHANGED <<now, schedVars, tasks, queue, id_counter, backend, ret, producerVars,
                   dequeued, cycle>>

\* process_task's finally when update_task raises (the store is unreachable):
\* the exception is logged, process_task returns and the done callback
\* discards the execution
CloseStorageError(id) ==
    /\ id \in DOMAIN ex
    /\ ex[id].pc = "closing"
    /\ ex' = [i \in DOMAIN ex \ {id} |-> ex[i]]
    /\ UNCHANGED <<now, schedVars, storageVars, backend, ret, producerVars,
                   dequeued, cycle>>

----------------------------------------------------------------------------
(* Lease storages: sneakpeek/scheduler/in_memory_lease_storage.py and
   redis_lease_storage.py *)

Lease(name, owner_id, acquired, acquired_until) ==
    [name |-> name, owner_id |-> owner_id, acquired |-> acquired,
     acquired_until |-> acquired_until]

NoLease == Lease("", 0, None, None)

\* Scaled from DEFAULT_LEASE_DURATION (one minute) to clock ticks
DEFAULT_LEASE_DURATION == 2

\* A test that lets nobody take a lease that is held, its owner included
CanAcquireFreeLease(lease_name, owner_id) ==
    LET existing_lease == _leases[lease_name]
    IN  \/ existing_lease = NoLease
        \/ existing_lease.acquired_until < now

\* InMemoryLeaseStorage._can_acquire_lease
_can_acquire_lease(lease_name, owner_id) ==
    LET existing_lease == _leases[lease_name]
    IN  \/ existing_lease = NoLease
        \/ existing_lease.acquired_until < now
        \/ existing_lease.owner_id = owner_id

\* GET lease:<name>: the owner, or 0 when the key is absent or has expired
RedisGetLease(lease_name) ==
    IF /\ redis_leases[lease_name] # NoLease
       /\ now < redis_leases[lease_name].acquired_until
    THEN redis_leases[lease_name].owner_id
    ELSE 0

\* The owner the lease store records as holding the unexpired lease, 0 if none
StoreOwner(lease_name) ==
    IF lease_backend = "memory"
    THEN IF /\ _leases[lease_name] # NoLease
            /\ now < _leases[lease_name].acquired_until
         THEN _leases[lease_name].owner_id
         ELSE 0
    ELSE RedisGetLease(lease_name)

----------------------------------------------------------------------------
(* The lease storage called directly by its owners *)

\* A call in progress or just finished: the operation, the lease name and the
\* duration it was given, the owner GET returned (0 for no value), the Lease
\* returned (NoLease for None), and where the call stands.
LCall(op, name, acquire_for, got, result, pc) ==
    [op |-> op, name |-> name, acquire_for |-> acquire_for, got |-> got,
     result |-> result, pc |-> pc]

NoCall == LCall("idle", "", 0, 0, NoLease, "done")

LeaseDurations == 1..DEFAULT_LEASE_DURATION

\* InMemoryLeaseStorage.maybe_acquire_lease, under the storage's lock
MemAcquire(o, name, d) ==
    /\ lease_backend = "memory"
    /\ lcall[o] = NoCall
    /\ IF _can_acquire_lease(name, o)
       THEN LET acquired == Lease(name, o, now, now + d)
            IN  /\ _leases' = [_leases EXCEPT ![name] = acquired]
                /\ lcall' = [lcall EXCEPT ![o] =
                      LCall("maybe_acquire_lease", name, d, 0, acquired, "done")]
       ELSE /\ _leases' = _leases
            /\ lcall' = [lcall EXCEPT ![o] =
                  LCall("maybe_acquire_lease", name, d, 0, NoLease, "done")]
    /\ UNCHANGED <<now, storageVars, backend, ret, producerVars, ex, dequeued,
                   cycle, lease_backend, redis_leases, lease, lpc, lget,
                   stasks, jobs, periodic>>

\* InMemoryLeaseStorage.release_lease, under the storage's lock
MemRelease(o, name) ==
    /\ lease_backend = "memory"
    /\ lcall[o] = NoCall
    /\ IF _leases[name] = NoLease THEN _leases' = _leases
       ELSE IF _can_acquire_lease(name, o)
       THEN _leases' = [_leases EXCEPT ![name] = NoLease]
       ELSE _leases' = _leases
    /\ lcall' = [lcall EXCEPT ![o] =
          LCall("release_lease", name, 0, 0, NoLease, "done")]
    /\ UNCHANGED <<now, storageVars, backend, ret, producerVars, ex, dequeued,
                   cycle, lease_backend, redis_leases, lease, lpc, lget,
                   stasks, jobs, periodic>>

\* RedisLeaseStorage, first await of either operation: GET lease:<name>
RedisGet(o, op, name, d) ==
    /\ lease_backend = "redis"
    /\ lcall[o] = NoCall
    /\ lcall' = [lcall EXCEPT ![o] =
          LCall(op, name, d, RedisGetLease(name), NoLease, "got")]
    /\ UNCHANGED <<now, storageVars, backend, ret, producerVars, ex, dequeued,
                   cycle, lease_backend, _leases, redis_leases, lease, lpc,
                   lget, stasks, jobs, periodic>>

\* RedisLeaseStorage.maybe_acquire_lease, second await: SET lease:<name> owner
\* EX acquire_for, unless GET returned another owner
RedisSet(o) ==
    /\ lcall[o].op = "maybe_acquire_lease"
    /\ lcall[o].pc = "got"
    /\ IF lcall[o].got = 0 \/ lcall[o].got = o
       THEN /\ redis_leases' = [redis_leases EXCEPT ![lcall[o].name] =
                   Lease(lcall[o].name, o, now, now + lcall[o].acquire_for)]
            /\ lcall' = [lcall EXCEPT ![o].pc = "set"]
       ELSE /\ redis_leases' = redis_leases
            /\ lcall' = [lcall EXCEPT ![o].pc = "done"]
    /\ UNCHANGED <<now, storageVars, backend, ret, producerVars, ex, dequeued,
                   cycle, lease_backend, _leases, lease, lpc, lget, stasks,
                   jobs, periodic>>

\* SET has answered: the Lease returned is built from the clock as it is now
RedisAcquired(o) ==
    /\ lcall[o].op = "maybe_acquire_lease"
    /\ lcall[o].pc = "set"
    /\ lcall' = [lcall EXCEPT
          ![o].result = Lease(lcall[o].name, o, now, now + lcall[o].acquire_for),
          ![o].pc = "done"]
    /\ UNCHANGED <<now, storageVars, backend, ret, producerVars, ex, dequeued,
                   cycle, lease_backend, _leases, redis_leases, lease, lpc,
                   lget, stasks, jobs, periodic>>

\* `lease_owner == owner_id` in RedisLeaseStorage.release_lease: GET returns
\* bytes (maybe_acquire_lease decodes them), owner_id is a str, and bytes
\* never equal a str
BytesEqualStr(lease_owner, owner_id) == FALSE

\* RedisLeaseStorage.release_lease after the GET: DEL if the owners compare
\* equal
RedisDelete(o) ==
    /\ lcall[o].op = "release_lease"
    /\ lcall[o].pc = "got"
    /\ IF BytesEqualStr(lcall[o].got, o)
       THEN redis_leases' = [redis_leases EXCEPT ![lcall[o].name] = NoLease]
       ELSE redis_leases' = redis_leases
    /\ lcall' = [lcall EXCEPT ![o].pc = "done"]
    /\ UNCHANGED <<now, storageVars, backend, ret, producerVars, ex, dequeued,
                   cycle, lease_backend, _leases, lease, lpc, lget, stasks,
                   jobs, periodic>>

\* The call returns to the owner
LeaseReturn(o) ==
    /\ lcall[o] # NoCall
    /\ lcall[o].pc = "done"
    /\ lcall' = [lcall EXCEPT ![o] = NoCall]
    /\ UNCHANGED <<now, storageVars, backend, ret, producerVars, ex, dequeued,
                   cycle, lease_backend, _leases, redis_leases, lease, lpc,
                   lget, stasks, jobs, periodic>>

----------------------------------------------------------------------------
(* Scheduler: sneakpeek/scheduler/scheduler.py *)

INACTIVE == "inactive"
EVERY_SECOND == "every_second"
EVERY_MINUTE == "every_minute"

\* The scheduler's lease, and a lease of another name (as in test_lease)
lease_name == "sneakpeek:scheduler"
test_lease == "test_lease"
LeaseNames == {lease_name, test_lease}

PeriodicTask(id, schedule) ==
    [id |-> id, name |-> id, handler |-> TEST_HANDLER_NAME,
     priority |-> NORMAL, schedule |-> schedule, timeout |-> None]

\* An enqueue_task that does not look at the lease
LeaseNotChecked(r) == TRUE

\* Scheduler._is_lease_acquired
_is_lease_acquired(r) ==
    /\ lease[r] # NoLease
    /\ now < lease[r].acquired_until

LocalIds(ts) == {ts[i].id : i \in DOMAIN ts}

LocalTask(ts, id) == ts[CHOOSE i \in DOMAIN ts : ts[i].id = id]

RemoveLocal(ts, id) == SelectSeq(ts, LAMBDA t : t.id # id)

JobsWithout(js, id) == {j \in js : j[1] # id}

\* Scheduler.start_scheduling_task on the state st = [tasks, jobs, ok]: the
\* descriptor takes its place in the map (a new key goes last), the job of
\* that id is replaced, and a job is added unless the schedule is INACTIVE.
start_scheduling_task(st, task) ==
    [tasks |-> IF task.id \in LocalIds(st.tasks)
               THEN [i \in DOMAIN st.tasks |->
                        IF st.tasks[i].id = task.id THEN task ELSE st.tasks[i]]
               ELSE Append(st.tasks, task),
     jobs |-> IF task.schedule = INACTIVE
              THEN JobsWithout(st.jobs, task.id)
              ELSE JobsWithout(st.jobs, task.id) \cup {<<task.id, task.priority>>},
     ok |-> st.ok]

\* A stop_scheduling_task that drops the descriptor and leaves its job
StopKeepsJob(st, task) ==
    [tasks |-> RemoveLocal(st.tasks, task.id),
     jobs |-> st.jobs,
     ok |-> st.ok]

\* Scheduler.stop_scheduling_task: remove_job raises JobLookupError when the
\* job is not there, before the descriptor is dropped.
stop_scheduling_task(st, task) ==
    IF \E j \in st.jobs : j[1] = task.id
    THEN [tasks |-> RemoveLocal(st.tasks, task.id),
          jobs |-> JobsWithout(st.jobs, task.id),
          ok |-> st.ok]
    ELSE [st EXCEPT !.ok = FALSE]

\* The first loop of update_tasks, over the values of self.tasks as they were
\* when the loop began (vals), from position i.  Dropping a key while the
\* dict is being iterated makes the next step of the iteration raise
\* RuntimeError, so the loop ends after the first descriptor it stops.
RECURSIVE ExistingLoop(_, _, _, _)
ExistingLoop(vals, i, index, st) ==
    IF i > Len(vals) THEN st
    ELSE LET existing == vals[i]
         IN  IF \/ existing.id \notin DOMAIN index
                \/ index[existing.id].schedule = INACTIVE
             THEN [stop_scheduling_task(st, existing) EXCEPT !.ok = FALSE]
             ELSE IF LocalTask(st.tasks, existing.id) # index[existing.id]
             THEN ExistingLoop(vals, i + 1, index,
                               start_scheduling_task(st, index[existing.id]))
             ELSE ExistingLoop(vals, i + 1, index, st)

\* The second loop of update_tasks, over the remote descriptors
RECURSIVE RemoteLoop(_, _, _, _)
RemoteLoop(ids, i, index, st) ==
    IF i > Len(ids) THEN st
    ELSE LET task == index[ids[i]]
         IN  IF task.id \notin LocalIds(st.tasks) /\ task.schedule # INACTIVE
             THEN RemoteLoop(ids, i + 1, index, start_scheduling_task(st, task))
             ELSE RemoteLoop(ids, i + 1, index, st)

\* Scheduler.update_tasks; an exception leaves it where it was raised
update_tasks(r) ==
    LET index == periodic
        st0 == [tasks |-> stasks[r], jobs |-> jobs[r], ok |-> TRUE]
        st1 == ExistingLoop(stasks[r], 1, index, st0)
    IN  IF st1.ok
        THEN RemoteLoop(SortedAsc(DOMAIN index), 1, index, st1)
        ELSE st1

\* The rest of _on_tick once the lease is in self.lease
TickWithLease(r, acquired) ==
    /\ lease' = [lease EXCEPT ![r] = acquired]
    /\ LET st == update_tasks(r)
       IN  /\ stasks' = [stasks EXCEPT ![r] = st.tasks]
           /\ jobs' = [jobs EXCEPT ![r] = st.jobs]

\* _on_tick over InMemoryLeaseStorage: maybe_acquire_lease runs under the
\* storage's lock with no suspension inside
TickMemory(r) ==
    /\ lease_backend = "memory"
    /\ lpc[r] = "idle"
    /\ IF _can_acquire_lease(lease_name, r)
       THEN LET acquired == Lease(lease_name, r, now, now + DEFAULT_LEASE_DURATION)
            IN  /\ _leases' = [_leases EXCEPT ![lease_name] = acquired]
                /\ TickWithLease(r, acquired)
       ELSE /\ lease' = [lease EXCEPT ![r] = NoLease]
            /\ UNCHANGED <<_leases, stasks, jobs>>
    /\ UNCHANGED <<now, storageVars, backend, ret, producerVars, ex, dequeued, cycle,
                   lease_backend, redis_leases, lpc, lget, periodic, lcall>>

\* _on_tick over RedisLeaseStorage, first await: GET lease:<name>
TickRedisGet(r) ==
    /\ lease_backend = "redis"
    /\ lpc[r] = "idle"
    /\ lpc' = [lpc EXCEPT ![r] = "got"]
    /\ lget' = [lget EXCEPT ![r] = RedisGetLease(lease_name)]
    /\ UNCHANGED <<now, storageVars, backend, ret, producerVars, ex, dequeued, cycle,
                   lease_backend, _leases, redis_leases, lease, stasks, jobs,
                   periodic, lcall>>

\* second await: SET lease:<name> owner EX duration, unless another owner was
\* read; then the tick ends with self.lease = None
TickRedisSet(r) ==
    /\ lpc[r] = "got"
    /\ IF lget[r] = 0 \/ lget[r] = r
       THEN /\ redis_leases' = [redis_leases EXCEPT ![lease_name] =
                   Lease(lease_name, r, now, now + DEFAULT_LEASE_DURATION)]
            /\ lpc' = [lpc EXCEPT ![r] = "set"]
            /\ lease' = lease
       ELSE /\ lease' = [lease EXCEPT ![r] = NoLease]
            /\ lpc' = [lpc EXCEPT ![r] = "idle"]
            /\ redis_leases' = redis_leases
    /\ lget' = [lget EXCEPT ![r] = 0]
    /\ UNCHANGED <<now, storageVars, backend, ret, producerVars, ex, dequeued, cycle,
                   lease_backend, _leases, stasks, jobs, periodic, lcall>>

\* SET has answered: the Lease is built from the clock as it is now
TickRedisReturn(r) ==
    /\ lpc[r] = "set"
    /\ lpc' = [lpc EXCEPT ![r] = "idle"]
    /\ TickWithLease(r, Lease(lease_name, r, now, now + DEFAULT_LEASE_DURATION))
    /\ UNCHANGED <<now, storageVars, backend, ret, producerVars, ex, dequeued, cycle,
                   lease_backend, _leases, redis_leases, lget, periodic, lcall>>

\* A trigger fires: Scheduler.enqueue_task up to Queue.enqueue's first await
TriggerFire(r, job) ==
    /\ job \in jobs[r]
    /\ _is_lease_acquired(r)
    /\ job[1] \in LocalIds(stasks[r])
    /\ LET task == LocalTask(stasks[r], job[1])
       IN  EnqueueRead(r, EnqueueTaskRequest(task.name, task.handler, job[2],
                                             task.timeout))

\* A trigger fires and enqueue_task returns at once: no lease, or the task
\* is not in self.tasks
TriggerSkipped(r, job) ==
    /\ job \in jobs[r]
    /\ ~(_is_lease_acquired(r) /\ job[1] \in LocalIds(stasks[r]))
    /\ UNCHANGED vars

\* The periodic-task source changes: a descriptor is created or its schedule
\* is edited
SetPeriodic(id, schedule) ==
    /\ IF id \in DOMAIN periodic THEN periodic[id].schedule # schedule ELSE TRUE
    /\ periodic' = (id :> PeriodicTask(id, schedule)) @@ periodic
    /\ UNCHANGED <<now, storageVars, backend, ret, producerVars, ex, dequeued, cycle,
                   lease_backend, _leases, redis_leases, lease, lpc, lget,
                   stasks, jobs, lcall>>

\* ... or a descriptor is deleted
RemovePeriodic(id) ==
    /\ id \in DOMAIN periodic
    /\ periodic' = [i \in DOMAIN periodic \ {id} |-> periodic[i]]
    /\ UNCHANGED <<now, storageVars, backend, ret, producerVars, ex, dequeued, cycle,
                   lease_backend, _leases, redis_leases, lease, lpc, lget,
                   stasks, jobs, lcall>>

\* Wall-clock time passes
Tick ==
    /\ now < MaxTime
    /\ now' = now + 1
    /\ UNCHANGED <<storageVars, backend, ret, producerVars, ex, dequeued, cycle,
                   schedVars>>

----------------------------------------------------------------------------
(* Initial states *)

InitStorage ==
    /\ now = 0
    /\ task_instances = <<>>
    /\ tasks = [n \in Names |-> {}]
    /\ queue = {}
    /\ id_counter = 0
    /\ ppc = [p \in Producers |-> "idle"]
    /\ ptask = [p \in Producers |-> NoTask]
    /\ ex = <<>>
    /\ dequeued = <<>>
    /\ ret = Idle
    /\ cycle = [c \in Consumers |-> TRUE]

InitScheduler ==
    /\ _leases = [n \in LeaseNames |-> NoLease]
    /\ redis_leases = [n \in LeaseNames |-> NoLease]
    /\ lease = [r \in Replicas |-> NoLease]
    /\ lpc = [r \in Replicas |-> "idle"]
    /\ lget = [r \in Replicas |-> 0]
    /\ stasks = [r \in Replicas |-> <<>>]
    /\ jobs = [r \in Replicas |-> {}]
    /\ periodic = <<>>
    /\ lcall = [o \in Replicas |-> NoCall]

----------------------------------------------------------------------------
(* The storage interface driven directly, on either backend *)

InitS ==
    /\ InitStorage
    /\ InitScheduler
    /\ lease_backend = "memory"
    /\ backend \in {"memory", "redis"}

NextS ==
    \/ \E p \in Producers, n \in Names, pr \in TaskPriority :
          CallEnqueueTask(p, EnqueueTaskRequest(n, TEST_HANDLER_NAME, pr, None))
    \/ \E p \in Producers : GenerateId(p)
    \/ \E p \in Producers : EnqueuePipeline(p)
    \/ \E p \in Producers : MemEnqueueTask(p)
    \/ CallDequeueTask

SpecStorage == InitS /\ [][NextS]_vars

----------------------------------------------------------------------------
(* Scores of a long-lived store: a task enqueued long ago is still pending
   when the id counter reaches and passes 2^SCORE_PRIORITY_BIT_OFFSET *)

MaxId == 18

\* The store after enqueue_task stored a task with id old_id and the counter
\* moved on to id_counter, while a caller has just called enqueue_task
InitScore ==
    /\ \E old_id \in 1..(MaxId - 1), old_priority \in TaskPriority,
          priority \in TaskPriority :
          LET old == Task(old_id,
                          EnqueueTaskRequest(1, TEST_HANDLER_NAME,
                                             old_priority, None), 0)
          IN  /\ task_instances = (old_id :> old)
              /\ tasks = [n \in Names |-> IF n = 1 THEN {old_id} ELSE {}]
              /\ queue = {<<_get_task_score(old), old_id>>}
              /\ id_counter \in old_id..(MaxId - 1)
              /\ ptask = [p \in Producers |->
                            IF p = Client
                            THEN Task(0, EnqueueTaskRequest(
                                             NumNames, TEST_HANDLER_NAME,
                                             priority, None), 0)
                            ELSE NoTask]
    /\ ppc = [p \in Producers |-> IF p = Client THEN "enqueue_task" ELSE "idle"]
    /\ now = 0
    /\ ex = <<>>
    /\ dequeued = <<>>
    /\ ret = Idle
    /\ cycle = [c \in Consumers |-> TRUE]
    /\ InitScheduler
    /\ lease_backend = "memory"
    /\ backend \in {"memory", "redis"}

NextScore ==
    \/ GenerateId(Client)
    \/ EnqueuePipeline(Client)
    \/ MemEnqueueTask(Client)
    \/ CallDequeueTask

SpecScore == InitScore /\ [][NextScore]_vars

----------------------------------------------------------------------------
(* Producers, consumers and an operator on the networked queue storage *)

Init ==
    /\ InitStorage
    /\ InitScheduler
    /\ lease_backend = "memory"
    /\ backend = "redis"

Next ==
    \/ \E p \in Producers, n \in Names :
          EnqueueRead(p, EnqueueTaskRequest(n, TEST_HANDLER_NAME, NORMAL, None))
    \/ \E p \in Producers : EnqueueRaised(p)
    \/ \E p \in Producers : GenerateId(p)
    \/ \E p \in Producers : EnqueuePipeline(p)
    \/ \E c \in Consumers : Consume(c)
    \/ \E c \in Consumers : ConsumeNothing(c)
    \/ \E id \in TaskIds : ProcessStart(id)
    \/ \E id \in TaskIds : PingRead(id)
    \/ \E id \in TaskIds : PingWrite(id)
    \/ \E id \in TaskIds : HandlerReturn(id)
    \/ \E id \in TaskIds : HandlerRaise(id)
    \/ \E id \in TaskIds : HandlerDone(id)
    \/ \E id \in TaskIds : Close(id)
    \/ \E id \in TaskIds : AdminKill(id)
    \/ KillDeadTasks

Spec == Init /\ [][Next]_vars

----------------------------------------------------------------------------
(* ... and the operator may also kill a task that has not been taken yet *)

NextOperator ==
    \/ Next
    \/ \E id \in TaskIds : AdminKillPending(id)

SpecOperator == Init /\ [][NextOperator]_vars

----------------------------------------------------------------------------
(* Consumers that may be stopped or die *)

NextStopped ==
    \/ Next
    \/ \E c \in Consumers : StopDuringDequeue(c)
    \/ \E c \in Consumers : Stop(c)
    \/ \E c \in Consumers : Crash(c)

SpecStopped == Init /\ [][NextStopped]_vars

----------------------------------------------------------------------------
(* A client of the queue's interface on either backend, while time passes *)

KeepLasts == 0..MaxTasks

InitQueue ==
    /\ InitStorage
    /\ InitScheduler
    /\ lease_backend = "memory"
    /\ backend \in {"memory", "redis"}

\* A worker's update of a task through Queue.update_task: PENDING to STARTED,
\* STARTED to a terminal status
QAdvance(id, s) ==
    /\ id \in DOMAIN task_instances
    /\ IF task_instances[id].status = PENDING THEN s = STARTED
       ELSE task_instances[id].status = STARTED /\ s \in Terminal
    /\ QUpdate(id, s)

NextQueue ==
    \/ Tick
    \/ \E name \in Names :
          EnqueueRead(Client, EnqueueTaskRequest(name, TEST_HANDLER_NAME,
                                                 NORMAL, None))
    \/ EnqueueRaised(Client)
    \/ GenerateId(Client)
    \/ EnqueuePipeline(Client)
    \/ MemEnqueueTask(Client)
    \/ \E id \in TaskIds, s \in TaskStatus : QAdvance(id, s)
    \/ \E id \in TaskIds : QPingRead(id)
    \/ QPingWrite
    \/ \E id \in TaskIds : AdminKill(id)
    \/ QKillDeadTasks
    \/ QReturn

SpecQueue == InitQueue /\ [][NextQueue]_vars

----------------------------------------------------------------------------
(* Retention: a client of the storage interface that also deletes old tasks *)

NextRetention ==
    \/ \E p \in Producers, name \in Names :
          CallEnqueueTask(p, EnqueueTaskRequest(name, TEST_HANDLER_NAME,
                                                NORMAL, None))
    \/ \E p \in Producers : GenerateId(p)
    \/ \E p \in Producers : EnqueuePipeline(p)
    \/ \E p \in Producers : MemEnqueueTask(p)
    \/ CallDequeueTask
    \/ \E id \in TaskIds, s \in TaskStatus : QUpdate(id, s)
    \/ \E k \in KeepLasts : QDeleteOldTasks(k)
    \/ QReturn

SpecRetention == InitQueue /\ [][NextRetention]_vars

----------------------------------------------------------------------------
(* Consumers running handlers that may be unknown, raise, hang past their
   timeout or lose the store during a heartbeat, while time passes *)

TASK_TIMEOUT == 1

InitConsumer ==
    /\ InitStorage
    /\ InitScheduler
    /\ lease_backend = "memory"
    /\ backend = "redis"

NextConsumer ==
    \/ Tick
    \/ \E name \in Names,
          h \in {TEST_HANDLER_NAME, UNKNOWN_HANDLER_NAME},
          t \in {None, TASK_TIMEOUT} :
          EnqueueRead(Client, EnqueueTaskRequest(name, h, NORMAL, t))
    \/ EnqueueRaised(Client)
    \/ GenerateId(Client)
    \/ EnqueuePipeline(Client)
    \/ \E c \in Consumers : Consume(c)
    \/ \E c \in Consumers : ConsumeNothing(c)
    \/ \E id \in TaskIds : ProcessStart(id)
    \/ \E id \in TaskIds : PingRead(id)
    \/ \E id \in TaskIds : PingWrite(id)
    \/ \E id \in TaskIds : HandlerReturn(id)
    \/ \E id \in TaskIds : HandlerRaise(id)
    \/ \E id \in TaskIds : HandlerDone(id)
    \/ \E id \in TaskIds : TimedOut(id)
    \/ \E id \in TaskIds : Close(id)

SpecConsumer == InitConsumer /\ [][NextConsumer]_vars

\* ... and the store may fail a heartbeat
NextFaulty ==
    \/ NextConsumer
    \/ \E id \in TaskIds : PingStorageError(id)

SpecFaulty == InitConsumer /\ [][NextFaulty]_vars

----------------------------------------------------------------------------
(* One consumer under the event loop's scheduling: a coroutine that can take
   its next step is eventually resumed.  Handlers are not required to finish,
   the store may fail a heartbeat or the final update, and an operator may
   kill a running task. *)

NextSupervised ==
    \/ Tick
    \/ \E name \in Names,
          h \in {TEST_HANDLER_NAME, UNKNOWN_HANDLER_NAME},
          t \in {None, TASK_TIMEOUT} :
          EnqueueRead(Client, EnqueueTaskRequest(name, h, NORMAL, t))
    \/ EnqueueRaised(Client)
    \/ GenerateId(Client)
    \/ EnqueuePipeline(Client)
    \/ Consume(1)
    \/ ConsumeNothing(1)
    \/ \E id \in TaskIds : ProcessStart(id)
    \/ \E id \in TaskIds : PingRead(id)
    \/ \E id \in TaskIds : PingStorageError(id)
    \/ \E id \in TaskIds : PingWrite(id)
    \/ \E id \in TaskIds : HandlerReturn(id)
    \/ \E id \in TaskIds : HandlerRaise(id)
    \/ \E id \in TaskIds : HandlerDone(id)
    \/ \E id \in TaskIds : TimedOut(id)
    \/ \E id \in TaskIds : Close(id)
    \/ \E id \in TaskIds : CloseStorageError(id)
    \/ \E id \in TaskIds : AdminKill(id)

FairSupervised ==
    \A id \in TaskIds :
        /\ WF_vars(ProcessStart(id))
        /\ WF_vars(PingRead(id) \/ PingStorageError(id))
        /\ WF_vars(PingWrite(id))
        /\ WF_vars(HandlerDone(id))
        /\ WF_vars(TimedOut(id))
        /\ WF_vars(Close(id) \/ CloseStorageError(id))

SpecSupervised == InitConsumer /\ [][NextSupervised]_vars /\ FairSupervised

----------------------------------------------------------------------------
(* Scheduler replicas sharing one lease store and one queue *)

InitSched ==
    /\ InitStorage
    /\ InitScheduler
    /\ lease_backend \in {"memory", "redis"}
    /\ backend = "redis"

NextSched ==
    \/ Tick
    \/ \E r \in Replicas : TickMemory(r)
    \/ \E r \in Replicas : TickRedisGet(r)
    \/ \E r \in Replicas : TickRedisSet(r)
    \/ \E r \in Replicas : TickRedisReturn(r)
    \/ \E r \in Replicas, j \in PeriodicIds \X TaskPriority : TriggerFire(r, j)
    \/ \E r \in Replicas, j \in PeriodicIds \X TaskPriority : TriggerSkipped(r, j)
    \/ \E r \in Replicas : EnqueueRaised(r)
    \/ \E r \in Replicas : GenerateId(r)
    \/ \E r \in Replicas : EnqueuePipeline(r)
    \/ \E id \in PeriodicIds, sch \in {INACTIVE, EVERY_SECOND, EVERY_MINUTE} :
          SetPeriodic(id, sch)
    \/ \E id \in PeriodicIds : RemovePeriodic(id)

SpecSched == InitSched /\ [][NextSched]_vars

----------------------------------------------------------------------------
(* Owners acquiring and releasing leases on either lease storage, while time
   passes *)

NextLease ==
    \/ Tick
    \/ \E o \in Replicas, name \in LeaseNames, d \in LeaseDurations :
          MemAcquire(o, name, d)
    \/ \E o \in Replicas, name \in LeaseNames : MemRelease(o, name)
    \/ \E o \in Replicas, name \in LeaseNames, d \in LeaseDurations :
          RedisGet(o, "maybe_acquire_lease", name, d)
    \/ \E o \in Replicas, name \in LeaseNames :
          RedisGet(o, "release_lease", name, 0)
    \/ \E o \in Replicas : RedisSet(o)
    \/ \E o \in Replicas : RedisAcquired(o)
    \/ \E o \in Replicas : RedisDelete(o)
    \/ \E o \in Replicas : LeaseReturn(o)

SpecLease == InitSched /\ [][NextLease]_vars

----------------------------------------------------------------------------
(* Scheduler replicas reconciling their triggers with a periodic-task source
   of several descriptors that are created, edited and deleted *)

InitReconcile ==
    /\ InitStorage
    /\ InitScheduler
    /\ lease_backend = "memory"
    /\ backend = "redis"

NextReconcile ==
    \/ Tick
    \/ \E r \in Replicas : TickMemory(r)
    \/ \E id \in Descriptors, sch \in {INACTIVE, EVERY_SECOND, EVERY_MINUTE} :
          SetPeriodic(id, sch)
    \/ \E id \in Descriptors : RemovePeriodic(id)

SpecReconcile == InitReconcile /\ [][NextReconcile]_vars

\* ... under the replica's _update_cycle, which never stops ticking
FairReconcile == \A r \in Replicas : WF_vars(TickMemory(r))

SpecReconcileFair == InitReconcile /\ [][NextReconcile]_vars /\ FairReconcile

----------------------------------------------------------------------------
(* Scheduler replicas whose triggers fire while workers finish the tasks and
   the queue storage may fail an enqueue *)

NextTrigger ==
    \/ Tick
    \/ \E r \in Replicas : TickMemory(r)
    \/ \E id \in PeriodicIds, sch \in {EVERY_SECOND, EVERY_MINUTE} :
          SetPeriodic(id, sch)
    \/ \E r \in Replicas, j \in PeriodicIds \X {NORMAL} : TriggerFire(r, j)
    \/ \E r \in Replicas, j \in PeriodicIds \X {NORMAL} : TriggerSkipped(r, j)
    \/ \E r \in Replicas : EnqueueRaised(r)
    \/ \E r \in Replicas : EnqueueStorageError(r)
    \/ \E r \in Replicas : GenerateId(r)
    \/ \E r \in Replicas : EnqueuePipeline(r)
    \/ \E id \in TaskIds, s \in TaskStatus : QAdvance(id, s)
    \/ QReturn

SpecTrigger == InitReconcile /\ [][NextTrigger]_vars

----------------------------------------------------------------------------
(* The whole flow: one scheduler replica, one periodic task with an interval
   schedule, one consumer whose handler returns, under the event loop's and
   the trigger's scheduling *)

InitSchedule ==
    /\ InitStorage
    /\ _leases = [n \in LeaseNames |-> NoLease]
    /\ redis_leases = [n \in LeaseNames |-> NoLease]
    /\ lease = [r \in Replicas |-> NoLease]
    /\ lpc = [r \in Replicas |-> "idle"]
    /\ lget = [r \in Replicas |-> 0]
    /\ stasks = [r \in Replicas |-> <<>>]
    /\ jobs = [r \in Replicas |-> {}]
    /\ periodic = (1 :> PeriodicTask(1, EVERY_SECOND))
    /\ lcall = [o \in Replicas |-> NoCall]
    /\ lease_backend = "memory"
    /\ backend = "redis"

NextSchedule ==
    \/ Tick
    \/ TickMemory(1)
    \/ TriggerFire(1, <<1, NORMAL>>)
    \/ TriggerSkipped(1, <<1, NORMAL>>)
    \/ EnqueueRaised(1)
    \/ GenerateId(1)
    \/ EnqueuePipeline(1)
    \/ Consume(1)
    \/ ConsumeNothing(1)
    \/ \E id \in TaskIds : ProcessStart(id)
    \/ \E id \in TaskIds : PingRead(id)
    \/ \E id \in TaskIds : PingWrite(id)
    \/ \E id \in TaskIds : HandlerReturn(id)
    \/ \E id \in TaskIds : HandlerDone(id)
    \/ \E id \in TaskIds : Close(id)

FairSchedule ==
    /\ WF_vars(TickMemory(1))
    /\ WF_vars(TriggerFire(1, <<1, NORMAL>>))
    /\ WF_vars(EnqueueRaised(1))
    /\ WF_vars(GenerateId(1))
    /\ WF_vars(EnqueuePipeline(1))
    /\ WF_vars(Consume(1))
    /\ \A id \in TaskIds :
          /\ WF_vars(ProcessStart(id))
          /\ WF_vars(PingRead(id))
          /\ WF_vars(PingWrite(id))
          /\ WF_vars(HandlerReturn(id))
          /\ WF_vars(HandlerDone(id))
          /\ WF_vars(Close(id))

SpecSchedule == InitSchedule /\ [][NextSchedule]_vars /\ FairSchedule

----------------------------------------------------------------------------
(* Properties *)

InFlight(name) ==
    {id \in DOMAIN task_instances :
        /\ task_instances[id].task_name = name
        /\ task_instances[id].status \in {PENDING, STARTED}}

PendingIds == {e[2] : e \in queue}

Range(seq) == {seq[i] : i \in DOMAIN seq}

\* C1: for every task name at most one persisted task is PENDING or STARTED,
\* whatever the interleaving of concurrent Queue.enqueue calls.
C1_AtMostOneInFlight ==
    \A name \in Names : Cardinality(InFlight(name)) <= 1

\* C2: for every task name at most one task is running, that is STARTED in
\* storage with its handler executing on some consumer.
C2_AtMostOneRunning ==
    \A name \in Names :
        Cardinality({id \in DOMAIN ex :
            /\ ex[id].handler = "running"
            /\ ex[id].task.task_name = name
            /\ id \in DOMAIN task_instances
            /\ task_instances[id].status = STARTED}) <= 1

\* (priority.value, id) of a is not above that of b
PairLeq(a, b) ==
    \/ task_instances[a].priority < task_instances[b].priority
    \/ /\ task_instances[a].priority = task_instances[b].priority
       /\ a <= b

C4_ExactlyOnce ==
    /\ \A i, j \in DOMAIN dequeued : i # j => dequeued[i] # dequeued[j]
    /\ queue = {} => Range(dequeued) = DOMAIN task_instances

\* C4 witness: two tasks were enqueued and both have been dequeued, on the
\* networked backend, with no enqueue in flight.
C4_Witness ==
    /\ backend = "redis"
    /\ queue = {}
    /\ Len(dequeued) = 2
    /\ Cardinality(DOMAIN task_instances) = 2
    /\ \A p \in Producers : ppc[p] = "idle"

AllowedTransition(from, to) ==
    \/ from = to
    \/ from = PENDING /\ to = STARTED
    \/ from = STARTED /\ to \in Terminal

\* C5: the persisted status of a task only moves along
\* PENDING -> STARTED -> {SUCCEEDED, FAILED, DEAD, KILLED}.
C5_MonotoneStatus ==
    [][\A id \in DOMAIN task_instances :
         id \in DOMAIN task_instances' =>
            AllowedTransition(task_instances[id].status,
                              task_instances'[id].status)]_vars

\* C6: when a task was set to KILLED while its handler was running, the
\* consumer's closing update_task leaves it KILLED and does not store the
\* handler's return value on it.
C6_KilledIsFinal ==
    [][\A id \in DOMAIN ex :
         (/\ ex[id].pc = "closing"
          /\ id \notin DOMAIN ex'
          /\ task_instances[id].status = KILLED) =>
            /\ task_instances'[id].status = KILLED
            /\ task_instances'[id].result # HANDLER_RESULT]_vars

Overlap(a, b) ==
    /\ a.acquired < b.acquired_until
    /\ b.acquired < a.acquired_until

\* C7: two different owners never hold leases of one name, returned by
\* maybe_acquire_lease, whose validity intervals [acquired, acquired_until)
\* overlap.
C7_LeaseExclusive ==
    \A a, b \in Replicas :
        (a # b /\ lease[a] # NoLease /\ lease[b] # NoLease) =>
            ~Overlap(lease[a], lease[b])

\* C8: whenever a replica issues queue.enqueue from Scheduler.enqueue_task,
\* the lease store records that replica as the unexpired owner of the
\* scheduler lease.
C8_EnqueueOnlyWithLease ==
    [][\A r \in Replicas :
         (ppc[r] = "idle" /\ ppc'[r] # "idle") =>
            StoreOwner(lease_name) = r]_vars

\* C9: the task Queue.dequeue has just returned is STARTED with started_at
\* set, and storage already says so.
C9_DequeueReturnsStarted ==
    \A id \in DOMAIN ex :
        ex[id].pc = "start" =>
            /\ ex[id].task.status = STARTED
            /\ ex[id].task.started_at # None
            /\ task_instances[id].status = STARTED

\* C10: Queue.enqueue raises TaskHasActiveRunError exactly when a persisted
\* task of the name is PENDING or STARTED as it reads the instances; a failed
\* call leaves the records, the index and the pending ordering as they were;
\* a call that passes the guard ends with a new PENDING record in the pending
\* ordering.
C10_EnqueueContract ==
    [][\A p \in Producers :
         /\ (ppc[p] = "idle" /\ ppc'[p] = "TaskHasActiveRunError") =>
               /\ InFlight(ptask'[p].task_name) # {}
               /\ UNCHANGED storageVars
         /\ (ppc[p] = "idle" /\ ppc'[p] = "enqueue_task") =>
               InFlight(ptask'[p].task_name) = {}
         /\ (ppc[p] = "TaskHasActiveRunError" /\ ppc'[p] # ppc[p]) =>
               /\ ppc'[p] = "idle"
               /\ UNCHANGED storageVars
         /\ (ppc[p] = "pipeline" /\ ppc'[p] # ppc[p]) =>
               LET id == ptask[p].id
               IN  /\ id \notin DOMAIN task_instances
                   /\ id \in DOMAIN task_instances'
                   /\ task_instances'[id].status = PENDING
                   /\ task_instances'[id].task_name = ptask[p].task_name
                   /\ id \in tasks'[ptask[p].task_name]
                   /\ id \in {e[2] : e \in queue'}
                   /\ Cardinality(queue') = Cardinality(queue) + 1]_vars

\* C10 witness: the first instance of a name is terminal, a second enqueue of
\* the name has produced a new PENDING task, and a further enqueue of that
\* name has just been refused.
C10_Witness ==
    \E p \in Producers, a, b \in DOMAIN task_instances :
        /\ ppc[p] = "TaskHasActiveRunError"
        /\ a < b
        /\ task_instances[a].task_name = ptask[p].task_name
        /\ task_instances[b].task_name = ptask[p].task_name
        /\ task_instances[a].status \in Terminal
        /\ task_instances[b].status = PENDING
        /\ Cardinality(InFlight(ptask[p].task_name)) = 1

\* The handler of execution e did not finish within the task's timeout
HandlerLate(e) ==
    /\ e.task.timeout # None
    /\ e.task.started_at # None
    /\ \/ e.done_at = None
       \/ e.done_at - e.task.started_at > e.task.timeout

\* The step in which process_task's closing update of task id is made
Closes(id) ==
    /\ id \in DOMAIN ex
    /\ ex[id].pc = "closing"
    /\ id \notin DOMAIN ex'

\* C11: a task with a timeout whose handler did not finish within the timeout
\* after started_at ends persisted as FAILED with finished_at set, and the
\* handler's return value is not stored.
C11_TimeoutFails ==
    [][\A id \in TaskIds :
         (Closes(id) /\ HandlerLate(ex[id])) =>
            /\ task_instances'[id].status = FAILED
            /\ task_instances'[id].finished_at # None
            /\ task_instances'[id].result # HANDLER_RESULT]_vars

\* C12: when the handler returned normally and the task was not killed, the
\* closing update persists SUCCEEDED, the handler's return value as result and
\* a finished_at, and the stored record read back is exactly what the
\* consumer persisted.
C12_SuccessPersisted ==
    [][\A id \in TaskIds :
         (/\ Closes(id)
          /\ ex[id].handler = "returned"
          /\ task_instances[id].status # KILLED) =>
            /\ task_instances'[id].status = SUCCEEDED
            /\ task_instances'[id].result = HANDLER_RESULT
            /\ task_instances'[id].finished_at # None
            /\ task_instances'[id] = ex[id].task]_vars

\* C12 witness: a task whose handler returned is stored SUCCEEDED with the
\* handler's result after its execution has left the active set.
C12_Witness ==
    \E id \in DOMAIN task_instances :
        /\ id \notin DOMAIN ex
        /\ task_instances[id].status = SUCCEEDED
        /\ task_instances[id].result = HANDLER_RESULT
        /\ task_instances[id].finished_at # None

\* C13: when the handler raised, or the task's handler is not registered (and
\* then no handler was invoked), the closing update persists FAILED with an
\* error text as result and finished_at set; the consumer's poll loop stays
\* alive and no other task changes.
C13_FailurePersisted ==
    [][\A id \in TaskIds :
         (/\ Closes(id)
          /\ \/ ex[id].handler = "raised"
             \/ ex[id].task.task_handler \notin handlers) =>
            /\ task_instances'[id].status = FAILED
            /\ task_instances'[id].result = FORMAT_EXC
            /\ task_instances'[id].finished_at # None
            /\ ex[id].task.task_handler \notin handlers => ex[id].handler = "none"
            /\ cycle'[ex[id].consumer]
            /\ \A other \in DOMAIN task_instances \ {id} :
                  task_instances'[other] = task_instances[other]]_vars

\* C13 witness: a task with an unregistered handler and a task whose handler
\* raised are both stored FAILED with the error text, consumers still polling.
C13_Witness ==
    \E a, b \in DOMAIN task_instances :
        /\ a # b
        /\ a \notin DOMAIN ex /\ b \notin DOMAIN ex
        /\ task_instances[a].task_handler = UNKNOWN_HANDLER_NAME
        /\ task_instances[b].task_handler = TEST_HANDLER_NAME
        /\ task_instances[a].status = FAILED /\ task_instances[a].result = FORMAT_EXC
        /\ task_instances[b].status = FAILED /\ task_instances[b].result = FORMAT_EXC
        /\ task_instances[b].timeout = None
        /\ \A c \in Consumers : cycle[c]

\* C14: while the task is STARTED in the store and its timeout has not
\* elapsed, the heartbeat loop is not left with the handler unfinished: an
\* error of ping_task other than TaskPingFinished neither cancels the handler
\* nor fails the task.
C14_PingErrorTolerated ==
    [][\A id \in DOMAIN ex :
         (/\ ex[id].pc = "loop"
          /\ id \in DOMAIN ex'
          /\ ex'[id].pc = "closing"
          /\ ex[id].handler \in {"created", "running"}
          /\ ~TimeoutExceeded(ex[id].task)
          /\ id \in DOMAIN task_instances
          /\ task_instances[id].status = STARTED) =>
            /\ ex'[id].handler # "cancelled"
            /\ ex'[id].task.status # FAILED]_vars

\* The step in which a client's call of operation op takes effect
Calls(op) ==
    /\ ret = Idle
    /\ ret'.op = op

\* C15: Queue.ping_task raises TaskNotFound for a missing id, TaskPingNotStarted
\* for a PENDING task and TaskPingFinished for a terminal one, leaving storage
\* as it was; for a STARTED task it raises nothing and persists the record it
\* loaded with last_active_at = now and every other field as loaded.
C15_PingContract ==
    [][/\ Calls("ping_task") =>
            LET id == ret'.id
            IN  /\ UNCHANGED storageVars
                /\ IF id \notin DOMAIN task_instances
                   THEN ret'.raised = "TaskNotFoundError"
                   ELSE IF task_instances[id].status = PENDING
                   THEN ret'.raised = "TaskPingNotStartedError"
                   ELSE IF task_instances[id].status \in Terminal
                   THEN ret'.raised = "TaskPingFinishedError"
                   ELSE /\ ret'.raised = ""
                        /\ ret'.task = [task_instances[id] EXCEPT
                                          !.last_active_at = now]
                /\ ret'.raised # "" => ret'.pc = "done"
       /\ (ret.op = "ping_task" /\ ret.pc = "write" /\ ret'.pc = "done") =>
            /\ ret.loaded.status = STARTED
            /\ ret.task = [ret.loaded EXCEPT
                             !.last_active_at = ret.task.last_active_at]
            /\ ret.id \in DOMAIN task_instances =>
                  task_instances' = [task_instances EXCEPT ![ret.id] = ret.task]
            /\ UNCHANGED <<tasks, queue, id_counter>>]_vars

\* C15 witness: a ping of a STARTED task has completed and the stored record
\* carries the new last_active_at, later than its started_at.
C15_Witness ==
    /\ ret.op = "ping_task"
    /\ ret.pc = "done"
    /\ ret.raised = ""
    /\ ret.id \in DOMAIN task_instances
    /\ task_instances[ret.id] = ret.task
    /\ task_instances[ret.id].status = STARTED
    /\ task_instances[ret.id].last_active_at > task_instances[ret.id].started_at

Max3(a, b, c) ==
    IF a >= b /\ a >= c THEN a ELSE IF b >= c THEN b ELSE c

\* A STARTED task whose most recent activity is older than the dead timeout
IsDeadTask(task) ==
    /\ task.status = STARTED
    /\ now - Max3(task.last_active_at, task.started_at, task.created_at)
          > DEFAULT_DEAD_TIMEOUT

\* C16: kill_dead_tasks marks DEAD, with finished_at = now, exactly the
\* STARTED tasks whose latest of last_active_at, started_at and created_at is
\* older than the dead timeout, and changes no other task.
C16_KillExactlyDead ==
    [][Calls("kill_dead_tasks") =>
         \A id \in DOMAIN task_instances :
            task_instances'[id] =
               IF IsDeadTask(task_instances[id])
               THEN [task_instances[id] EXCEPT !.status = DEAD,
                                               !.finished_at = now]
               ELSE task_instances[id]]_vars

\* C17: a STARTED task that has not been pinged for longer than the dead
\* timeout is no longer in flight after the next kill_dead_tasks, so it does
\* not block Queue.enqueue of its name any more.
C17_DeadTaskUnblocksName ==
    [][Calls("kill_dead_tasks") =>
         \A id \in DOMAIN task_instances :
            IsDeadTask(task_instances[id]) =>
               /\ task_instances'[id].status \in Terminal
               /\ ~(\E i \in DOMAIN get_task_instances(task_instances[id].task_name)' :
                      /\ get_task_instances(task_instances[id].task_name)'[i].id = id
                      /\ HasActiveRun(<<get_task_instances(
                                          task_instances[id].task_name)'[i]>>))]_vars

\* C18: after delete_old_tasks(k) every name has at most k records that are
\* not PENDING, and no PENDING record has been deleted.
C18_RetentionKeepsPending ==
    [][Calls("delete_old_tasks") =>
         LET k == ret'.id
         IN  /\ \A name \in Names :
                   Cardinality({i \in DOMAIN task_instances' :
                       /\ task_instances'[i].task_name = name
                       /\ task_instances'[i].status # PENDING}) <= k
             /\ \A id \in DOMAIN task_instances :
                   task_instances[id].status = PENDING =>
                      id \in DOMAIN task_instances']_vars

RecordsOf(store, name) ==
    {i \in DOMAIN store : store[i].task_name = name}

\* C19: delete_old_tasks(k) keeps, for every name with n records, exactly the
\* min(k, n) records with the highest ids, unchanged, and removes the others
\* from the record map and from the name's index, whatever their status.
C19_RetentionKeepsNewest ==
    [][Calls("delete_old_tasks") =>
         LET k == ret'.id
         IN  \A name \in Names :
                LET before == RecordsOf(task_instances, name)
                    after == RecordsOf(task_instances', name)
                    n == Cardinality(before)
                IN  /\ Cardinality(after) = IF k < n THEN k ELSE n
                    /\ after \subseteq before
                    /\ \A i \in after, j \in before \ after : i > j
                    /\ \A i \in after : task_instances'[i] = task_instances[i]
                    /\ tasks'[name] = after]_vars

\* C19 witness: delete_old_tasks(1) has just removed the older of two records
\* of a name and kept the newer one, a finished task.
C19_Witness ==
    /\ ret.op = "delete_old_tasks"
    /\ ret.id = 1
    /\ id_counter = 2
    /\ DOMAIN task_instances = {2}
    /\ task_instances[2].status \in Terminal
    /\ tasks[task_instances[2].task_name] = {2}

\* C20: update_task for an id that has no record fails with TaskNotFound and
\* creates no record.
C20_UpdateMissingRaises ==
    (ret.op = "update_task" /\ ret.loaded = NoTask) =>
        /\ ret.raised = "TaskNotFoundError"
        /\ ret.id \notin DOMAIN task_instances

\* Every id a storage has handed out so far: the ids of the records, of the
\* entries of the pending ordering, of the tasks dequeued, and of the tasks
\* whose enqueue has its id and has not written yet
AssignedIds ==
    DOMAIN task_instances \cup {e[2] : e \in queue} \cup Range(dequeued)
        \cup {ptask[p].id : p \in {q \in Producers : ppc[q] = "pipeline"}}

C28_BoundedConcurrency ==
    [][/\ \A c \in Consumers : Cardinality(active(c))' <= MaxConcurrency
       /\ \A id \in DOMAIN ex' \ DOMAIN ex :
             /\ Cardinality(active(ex'[id].consumer)) < MaxConcurrency
             /\ queue' = queue \ {zpopmin}
             /\ zpopmin[2] = id]_vars

\* C28 witness: a consumer that is polling has a full active set, with its
\* handler running, while another task is pending.
C28_Witness ==
    \E c \in Consumers :
        /\ cycle[c]
        /\ Cardinality(active(c)) = MaxConcurrency
        /\ \E id \in active(c) : ex[id].handler = "running"
        /\ queue # {}

\* C29: get_queue_len is the number of tasks enqueued and not yet returned by
\* dequeue_task: it starts at 0, grows by one exactly when an enqueue_task
\* stores its task, shrinks by one exactly when a dequeue_task returns a task,
\* and no other operation changes it.
C29_QueueLenCounts ==
    [][LET enqueued == DOMAIN task_instances' \ DOMAIN task_instances # {}
           returned == /\ Len(dequeued') = Len(dequeued) + 1
                       /\ dequeued'[Len(dequeued')] \in DOMAIN task_instances
       IN  get_queue_len' = get_queue_len + (IF enqueued THEN 1 ELSE 0)
                                          - (IF returned THEN 1 ELSE 0)]_vars

\* C30: the two queue storages answer every call alike: in every state,
\* get_tasks returns the same list, update_task raises the same for every
\* task, and dequeue_task hands out the same entry, whichever backend holds
\* the state.
C30_BackendsAgree ==
    /\ queue # {} => FirstEntry("memory") = FirstEntry("redis")
    /\ GetTasksOn("memory") = GetTasksOn("redis")
    /\ \A id \in TaskIds :
          UpdateTaskRaisedOn("memory", UpdatedTask(id, STARTED))
             = UpdateTaskRaisedOn("redis", UpdatedTask(id, STARTED))

\* The stored lease lets owner o acquire: there is none, it has expired, or
\* it is o's own
MayAcquire(stored, o) ==
    \/ stored = NoLease
    \/ stored.acquired_until < now
    \/ stored.owner_id = o

\* The stored lease is held, unexpired, by another owner than o
HeldByOther(stored, o) ==
    /\ stored # NoLease
    /\ now < stored.acquired_until
    /\ stored.owner_id # o

\* C22: maybe_acquire_lease(name, owner, d) returns a lease if the lease the
\* call finds for name is absent, expired or the owner's own, and then the
\* store holds name for owner until now + d and the lease returned has
\* acquired_until = now + d; if the lease found is held unexpired by another
\* owner it returns none and changes no stored lease.  Leases of other names
\* are never changed.
C22_AcquireContract ==
    [][\A o \in Replicas :
         LET c == lcall'[o]
         IN  /\ (lcall[o] = NoCall /\ c.op = "maybe_acquire_lease"
                   /\ lease_backend = "memory") =>
                  /\ MayAcquire(_leases[c.name], o) =>
                        /\ c.result = Lease(c.name, o, now, now + c.acquire_for)
                        /\ _leases' = [_leases EXCEPT ![c.name] = c.result]
                  /\ HeldByOther(_leases[c.name], o) =>
                        /\ c.result = NoLease
                        /\ _leases' = _leases
             /\ (lcall[o] = NoCall /\ c.op = "maybe_acquire_lease"
                   /\ lease_backend = "redis") =>
                  /\ MayAcquire(redis_leases[c.name], o) => c.got \in {0, o}
                  /\ HeldByOther(redis_leases[c.name], o) => c.got \notin {0, o}
                  /\ redis_leases' = redis_leases
             /\ (lcall[o].op = "maybe_acquire_lease" /\ lcall[o].pc = "got"
                   /\ c.pc # "got") =>
                  IF lcall[o].got \in {0, o}
                  THEN /\ c.pc = "set"
                       /\ redis_leases' = [redis_leases EXCEPT ![c.name] =
                             Lease(c.name, o, now, now + c.acquire_for)]
                  ELSE /\ c.pc = "done"
                       /\ c.result = NoLease
                       /\ redis_leases' = redis_leases
             /\ (lcall[o].op = "maybe_acquire_lease" /\ lcall[o].pc = "set"
                   /\ c.pc = "done") =>
                  /\ c.result = Lease(c.name, o, now, now + c.acquire_for)
                  /\ redis_leases' = redis_leases]_vars

\* C22 witness: an owner holds the unexpired lease of a name, acquired after
\* time has passed, and another owner's call for the same name has just
\* returned none.
C22_Witness ==
    \E o \in Replicas, p \in Replicas :
        /\ o # p
        /\ lcall[p].op = "maybe_acquire_lease"
        /\ lcall[p].pc = "done"
        /\ lcall[p].result = NoLease
        /\ LET stored == IF lease_backend = "memory"
                         THEN _leases[lcall[p].name]
                         ELSE redis_leases[lcall[p].name]
           IN  /\ stored.owner_id = o
               /\ stored.acquired > 0
               /\ now < stored.acquired_until

\* C23: release_lease(name, owner) removes the lease of name when it is the
\* owner's own or has expired, and changes nothing when the lease is held
\* unexpired by another owner or there is none, on both lease storages.
C23_ReleaseContract ==
    [][\A o \in Replicas :
         LET c == lcall'[o]
         IN  /\ (lcall[o] = NoCall /\ c.op = "release_lease"
                   /\ lease_backend = "memory") =>
                  LET stored == _leases[c.name]
                  IN  IF stored # NoLease /\ MayAcquire(stored, o)
                      THEN _leases' = [_leases EXCEPT ![c.name] = NoLease]
                      ELSE (stored = NoLease \/ HeldByOther(stored, o)) =>
                              _leases' = _leases
             /\ (lcall[o].op = "release_lease" /\ lcall[o].pc = "got"
                   /\ c.pc = "done") =>
                  LET stored == redis_leases[c.name]
                  IN  IF /\ stored # NoLease
                         /\ now < stored.acquired_until
                         /\ stored.owner_id = o
                      THEN redis_leases' = [redis_leases EXCEPT ![c.name] = NoLease]
                      ELSE (stored = NoLease \/ HeldByOther(stored, o)) =>
                              redis_leases' = redis_leases]_vars

\* A step in which replica r's tick has acquired the lease and reconciled
TickAcquired(r) ==
    /\ <<lease[r], stasks[r], jobs[r]>>' # <<lease[r], stasks[r], jobs[r]>>
    /\ lease'[r] # NoLease

\* The remote descriptors with a schedule other than INACTIVE
RemoteActive ==
    {periodic[id] : id \in {i \in DOMAIN periodic :
                               periodic[i].schedule # INACTIVE}}

\* C24: after a tick in which the lease was acquired, the replica's local
\* task map is the remote list restricted to non-INACTIVE schedules, with one
\* trigger per descriptor, whatever mix of removals, changes and additions
\* the tick found.
C24_TickReconciles ==
    [][\A r \in Replicas :
         TickAcquired(r) =>
            /\ {stasks'[r][i] : i \in DOMAIN stasks'[r]} = RemoteActive
            /\ jobs'[r] = {<<t.id, t.priority>> : t \in RemoteActive}]_vars

\* C25: after a tick in which the lease was acquired, a descriptor whose
\* schedule is INACTIVE has no trigger and is not in the local map, so that
\* nothing is enqueued for it any more, and a descriptor that has been made
\* active (again) and was not in the local map has a trigger registered.
C25_DeactivationSymmetric ==
    [][\A r \in Replicas :
         TickAcquired(r) =>
            \A id \in DOMAIN periodic :
               IF periodic[id].schedule = INACTIVE
               THEN /\ id \notin LocalIds(stasks'[r])
                    /\ ~(\E j \in jobs'[r] : j[1] = id)
               ELSE id \notin LocalIds(stasks[r]) =>
                       /\ id \in LocalIds(stasks'[r])
                       /\ <<id, periodic[id].priority>> \in jobs'[r]]_vars

\* C26: a tick whose maybe_acquire_lease fails leaves the replica without a
\* lease and with its local task map and its triggers exactly as they were,
\* and a replica passes a trigger's firing on to Queue.enqueue only while it
\* holds a lease that has not expired.
C26_FailedTickIsNoOp ==
    [][\A r \in Replicas :
         /\ lease'[r] = NoLease =>
               /\ stasks'[r] = stasks[r]
               /\ jobs'[r] = jobs[r]
         /\ (ppc[r] = "idle" /\ ppc'[r] # "idle") =>
               /\ lease[r] # NoLease
               /\ now < lease[r].acquired_until]_vars

\* C26 witness: a replica that had registered a trigger while it led has
\* failed to acquire the lease, which another replica holds; its map and its
\* trigger are still there.
C26_Witness ==
    \E r \in Replicas :
        /\ lease[r] = NoLease
        /\ lpc[r] = "idle"
        /\ stasks[r] # <<>>
        /\ jobs[r] # {}
        /\ StoreOwner(lease_name) \notin {0, r}

EnqueueErrors == {"TaskHasActiveRunError", "Exception"}

\* C27: when Queue.enqueue raises TaskHasActiveRun or another error for a
\* trigger's firing, the scheduler swallows it: neither the raising nor the
\* handling step creates a task or changes the replica's lease, local task map
\* or triggers, so the trigger stays registered; and a firing made when no
\* instance of the name is PENDING or STARTED passes the guard and goes on to
\* store a task.
C27_EnqueueErrorsSwallowed ==
    [][\A r \in Replicas :
         /\ (/\ ppc'[r] # ppc[r]
             /\ ppc[r] \in EnqueueErrors \/ ppc'[r] \in EnqueueErrors) =>
               /\ UNCHANGED storageVars
               /\ UNCHANGED <<lease, stasks, jobs>>
               /\ ppc[r] \in EnqueueErrors => ppc'[r] = "idle"
         /\ (ppc[r] = "idle" /\ ppc'[r] # "idle") =>
               /\ <<ptask'[r].task_name, NORMAL>> \in jobs'[r]
               /\ ppc'[r] = "TaskHasActiveRunError"
                     <=> InFlight(ptask'[r].task_name) # {}]_vars

\* C27 witness: a firing of a registered trigger has been rejected with
\* TaskHasActiveRun because the first task of the name, stored by an earlier
\* firing, is still in flight.
C27_Witness ==
    \E r \in Replicas :
        /\ ppc[r] = "TaskHasActiveRunError"
        /\ <<ptask[r].task_name, NORMAL>> \in jobs[r]
        /\ stasks[r] # <<>>
        /\ InFlight(ptask[r].task_name) = {1}

----------------------------------------------------------------------------
\* C31: in every persisted record, whatever enqueue, dequeue, consumer
\* processing, kill_dead_tasks and an operator's kill have done, started_at is
\* set exactly when the status is STARTED or terminal, and finished_at is set
\* exactly when the status is terminal.
C31_TimestampsMatchStatus ==
    \A id \in DOMAIN task_instances :
        /\ task_instances[id].started_at # None
              <=> task_instances[id].status \in {STARTED} \cup Terminal
        /\ task_instances[id].finished_at # None
              <=> task_instances[id].status \in Terminal

\* C32: the score orders the pending entries exactly as the pair
\* (priority.value, id) does: one entry's score is below another's exactly when
\* its pair is lexicographically smaller, for every id the counter hands out.
C32_ScoreOrdersPairs ==
    \A e \in queue, f \in queue :
        e[1] < f[1]
           <=> \/ task_instances[e[2]].priority < task_instances[f[2]].priority
               \/ /\ task_instances[e[2]].priority = task_instances[f[2]].priority
                  /\ e[2] < f[2]

\* C36: every entry of the pending ordering refers to a stored record, in
\* every reachable state, delete_old_tasks included, and so no dequeue_task
\* takes an entry whose record is gone (TaskNotFoundError).
C36_PendingEntriesHaveRecords ==
    /\ [](\A e \in queue : e[2] \in DOMAIN task_instances)
    /\ [][Len(dequeued') = Len(dequeued) + 1
            => dequeued'[Len(dequeued')] \in DOMAIN task_instances]_vars

\* C37: Queue.ping_task never changes a status: whatever was written to the
\* record between ping_task's read and its write (KILLED by an operator, DEAD
\* by kill_dead_tasks), the stored status after the write is the status the
\* record had just before it.
C37_PingKeepsStatus ==
    [][(/\ ret.op = "ping_task"
        /\ ret.pc = "write"
        /\ ret'.pc = "done"
        /\ ret.id \in DOMAIN task_instances)
          => task_instances'[ret.id].status = task_instances[ret.id].status]_vars

\* C38: a task whose persisted status was already terminal when the consumer
\* took it from the pending ordering (KILLED by an operator while PENDING) is
\* not moved to STARTED by process_task, and no handler is started for it.
C38_TerminalTaskNotStarted ==
    [][\A id \in DOMAIN ex :
          (/\ ex[id].pc = "start"
           /\ ex[id].task.status \in Terminal
           /\ (id \notin DOMAIN ex' \/ ex'[id] # ex[id]))
             => /\ task_instances'[id].status # STARTED
                /\ id \in DOMAIN ex' => ex'[id].handler = "none"]_vars

\* C35: heartbeats never outlive the handler: once the handler task has
\* returned, raised or been cancelled, the loop's next step is to leave with
\* the outcome and no ping_task is issued; and last_active_at of a record is
\* written only while its process_task has not yet persisted its final status.
C35_NoPingAfterHandler ==
    [][\A id \in TaskIds :
          /\ (/\ id \in DOMAIN ex
              /\ ex[id].pc = "loop"
              /\ ex[id].handler \in {"returned", "raised", "cancelled"}
              /\ (id \notin DOMAIN ex' \/ ex'[id] # ex[id]))
                => /\ id \in DOMAIN ex'
                   /\ ex'[id].pc = "closing"
                   /\ ex'[id].ping = NoTask
                   /\ UNCHANGED storageVars
          /\ (/\ id \in DOMAIN task_instances
              /\ id \in DOMAIN task_instances'
              /\ task_instances'[id].last_active_at
                    # task_instances[id].last_active_at)
                => /\ id \in DOMAIN ex
                   /\ ex[id].pc = "ping"
                   /\ ex[id].handler \in {"running", "returned", "raised"}]_vars

\* C35 witness: the handler returned after a heartbeat had been written, and
\* the loop has left with SUCCEEDED, about to persist it.
C35_Witness ==
    \E id \in DOMAIN ex :
        /\ ex[id].pc = "closing"
        /\ ex[id].handler = "returned"
        /\ ex[id].task.status = SUCCEEDED
        /\ task_instances[id].status = STARTED
        /\ task_instances[id].last_active_at # None

\* An execution whose outcome is settled: its handler is unknown, its handler
\* task is done or cancelled, its timeout has been exceeded, or it is already
\* in its finally block
Settled(id) ==
    /\ id \in DOMAIN ex
    /\ \/ ex[id].task.task_handler \notin handlers
       \/ ex[id].handler \in {"returned", "raised", "cancelled"}
       \/ ex[id].pc # "start" /\ TimeoutExceeded(ex[id].task)
       \/ ex[id].pc = "closing"

\* C34: every dequeued task leaves the consumer once its handler has
\* terminated or its timeout has run out: on every path (success, handler
\* error, timeout, kill, unknown handler) the execution is eventually removed
\* from the active set, and it is removed only by the one update_task at the
\* end of process_task, whose failure does not stop the consumer's loop.
C34_ExecutionLeaves ==
    /\ \A id \in TaskIds : Settled(id) ~> id \notin DOMAIN ex
    /\ [][\A id \in DOMAIN ex :
             id \notin DOMAIN ex'
                => /\ ex[id].pc = "closing"
                   /\ \/ task_instances' = update_task_stored(ex[id].task)
                      \/ UNCHANGED task_instances
                   /\ cycle' = cycle]_vars

\* C34 witness: a task with a timeout whose handler never finished has been
\* failed by the timeout and is about to be persisted.
C34_Witness ==
    \E id \in DOMAIN ex :
        /\ ex[id].pc = "closing"
        /\ ex[id].handler = "cancelled"
        /\ ex[id].task.timeout # None
        /\ ex[id].task.status = FAILED
        /\ now - ex[id].task.started_at > ex[id].task.timeout

\* C39: every persisted PENDING task is either in the pending ordering or
\* held by a live consumer that is about to persist it as STARTED, so a task
\* taken by a consumer that stops or dies is not left PENDING for good.
C39_PendingIsHeld ==
    \A id \in DOMAIN task_instances :
        task_instances[id].status = PENDING
           => \/ \E e \in queue : e[2] = id
              \/ id \in DOMAIN ex /\ ex[id].pc = "start"

C33_ScheduleKeepsProducing ==
    /\ <>(/\ 1 \in DOMAIN task_instances
          /\ task_instances[1].status = SUCCEEDED
          /\ task_instances[1].finished_at # None
          /\ task_instances[1].result = HANDLER_RESULT)
    /\ \A id \in 1..(MaxTasks - 1) :
          (/\ id \in DOMAIN task_instances
           /\ task_instances[id].status = SUCCEEDED)
             ~> (id + 1) \in DOMAIN task_instances

\* C33 witness: the first instance has been dequeued and persisted SUCCEEDED,
\* and the trigger has enqueued the second, which is pending.
C33_Witness ==
    /\ DOMAIN task_instances = {1, 2}
    /\ task_instances[1].status = SUCCEEDED
    /\ task_instances[1].finished_at # None
    /\ task_instances[2].status = PENDING
    /\ task_instances[2].task_name = task_instances[1].task_name
    /\ \E e \in queue : e[2] = 2

====
